---- MODULE Spec2Model ----
(***************************************************************************)
(* The fine-tune launcher scripts/gr00t_finetune.py as a state machine.    *)
(*                                                                         *)
(* Processes: one top-level invocation of the script and the workers the   *)
(* multi-process launcher (torchrun) starts from the command line the      *)
(* script builds.  Every process runs the same program: parse the command  *)
(* line (tyro.cli), attach the channel key lists, validate the accelerator *)
(* count, dispatch (in-process training or re-exec under torchrun), and,   *)
(* in-process, main(): datasets, split, model, TrainingArguments, runner.  *)
(*                                                                         *)
(* Text is modelled as sequences of one-character strings so that          *)
(* key.replace('_', '-'), str(value) and the parser's conversions are      *)
(* computed, not assumed.                                                  *)
(***************************************************************************)
EXTENDS Integers, Sequences, FiniteSets, TLC

(***************************************************************************)
(* Bounds of the model.                                                    *)
(***************************************************************************)
\* Largest number of accelerator devices on the host.
MaxGpus == 2
\* Largest number of items in a dataset directory.
MaxLen == 3
\* Largest number of command-line overrides the user types after
\* --dataset-path.
MaxOverrides == 2
\* Largest exit code the external launcher returns (sampled from 0..255).
MaxExitCode == 2

(***************************************************************************)
(* Text.                                                                   *)
(***************************************************************************)

\* The characters of the string literals the script uses.
Chars(s) ==
    CASE s = "dataset_path" -> << "d", "a", "t", "a", "s", "e", "t", "_", "p", "a", "t", "h" >>
      [] s = "validation_dataset_path" -> << "v", "a", "l", "i", "d", "a", "t", "i", "o", "n", "_", "d", "a", "t", "a", "s", "e", "t", "_", "p", "a", "t", "h" >>
      [] s = "output_dir" -> << "o", "u", "t", "p", "u", "t", "_", "d", "i", "r" >>
      [] s = "data_config" -> << "d", "a", "t", "a", "_", "c", "o", "n", "f", "i", "g" >>
      [] s = "num_arms" -> << "n", "u", "m", "_", "a", "r", "m", "s" >>
      [] s = "num_cams" -> << "n", "u", "m", "_", "c", "a", "m", "s" >>
      [] s = "batch_size" -> << "b", "a", "t", "c", "h", "_", "s", "i", "z", "e" >>
      [] s = "max_steps" -> << "m", "a", "x", "_", "s", "t", "e", "p", "s" >>
      [] s = "num_epochs" -> << "n", "u", "m", "_", "e", "p", "o", "c", "h", "s" >>
      [] s = "num_gpus" -> << "n", "u", "m", "_", "g", "p", "u", "s" >>
      [] s = "save_steps" -> << "s", "a", "v", "e", "_", "s", "t", "e", "p", "s" >>
      [] s = "base_model_path" -> << "b", "a", "s", "e", "_", "m", "o", "d", "e", "l", "_", "p", "a", "t", "h" >>
      [] s = "tune_llm" -> << "t", "u", "n", "e", "_", "l", "l", "m" >>
      [] s = "tune_visual" -> << "t", "u", "n", "e", "_", "v", "i", "s", "u", "a", "l" >>
      [] s = "tune_projector" -> << "t", "u", "n", "e", "_", "p", "r", "o", "j", "e", "c", "t", "o", "r" >>
      [] s = "tune_diffusion_model" -> << "t", "u", "n", "e", "_", "d", "i", "f", "f", "u", "s", "i", "o", "n", "_", "m", "o", "d", "e", "l" >>
      [] s = "resume" -> << "r", "e", "s", "u", "m", "e" >>
      [] s = "learning_rate" -> << "l", "e", "a", "r", "n", "i", "n", "g", "_", "r", "a", "t", "e" >>
      [] s = "weight_decay" -> << "w", "e", "i", "g", "h", "t", "_", "d", "e", "c", "a", "y" >>
      [] s = "warmup_ratio" -> << "w", "a", "r", "m", "u", "p", "_", "r", "a", "t", "i", "o" >>
      [] s = "lora_rank" -> << "l", "o", "r", "a", "_", "r", "a", "n", "k" >>
      [] s = "lora_alpha" -> << "l", "o", "r", "a", "_", "a", "l", "p", "h", "a" >>
      [] s = "lora_dropout" -> << "l", "o", "r", "a", "_", "d", "r", "o", "p", "o", "u", "t" >>
      [] s = "dataloader_num_workers" -> << "d", "a", "t", "a", "l", "o", "a", "d", "e", "r", "_", "n", "u", "m", "_", "w", "o", "r", "k", "e", "r", "s" >>
      [] s = "report_to" -> << "r", "e", "p", "o", "r", "t", "_", "t", "o" >>
      [] s = "embodiment_tag" -> << "e", "m", "b", "o", "d", "i", "m", "e", "n", "t", "_", "t", "a", "g" >>
      [] s = "video_backend" -> << "v", "i", "d", "e", "o", "_", "b", "a", "c", "k", "e", "n", "d" >>
      [] s = "train_test_split" -> << "t", "r", "a", "i", "n", "_", "t", "e", "s", "t", "_", "s", "p", "l", "i", "t" >>
      [] s = "video_keys" -> << "v", "i", "d", "e", "o", "_", "k", "e", "y", "s" >>
      [] s = "state_keys" -> << "s", "t", "a", "t", "e", "_", "k", "e", "y", "s" >>
      [] s = "action_keys" -> << "a", "c", "t", "i", "o", "n", "_", "k", "e", "y", "s" >>
      [] s = "/tmp/gr00t" -> << "/", "t", "m", "p", "/", "g", "r", "0", "0", "t" >>
      [] s = "gr1_arms_only" -> << "g", "r", "1", "_", "a", "r", "m", "s", "_", "o", "n", "l", "y" >>
      [] s = "nvidia/GR00T-N1-2B" -> << "n", "v", "i", "d", "i", "a", "/", "G", "R", "0", "0", "T", "-", "N", "1", "-", "2", "B" >>
      [] s = "wandb" -> << "w", "a", "n", "d", "b" >>
      [] s = "new_embodiment" -> << "n", "e", "w", "_", "e", "m", "b", "o", "d", "i", "m", "e", "n", "t" >>
      [] s = "decord" -> << "d", "e", "c", "o", "r", "d" >>
      [] s = "video.image_cam_0" -> << "v", "i", "d", "e", "o", ".", "i", "m", "a", "g", "e", "_", "c", "a", "m", "_", "0" >>
      [] s = "video.image_cam_1" -> << "v", "i", "d", "e", "o", ".", "i", "m", "a", "g", "e", "_", "c", "a", "m", "_", "1" >>
      [] s = "state.arm_0" -> << "s", "t", "a", "t", "e", ".", "a", "r", "m", "_", "0" >>
      [] s = "action.arm_0" -> << "a", "c", "t", "i", "o", "n", ".", "a", "r", "m", "_", "0" >>
      [] s = "None" -> << "N", "o", "n", "e" >>
      [] s = "torchrun" -> << "t", "o", "r", "c", "h", "r", "u", "n" >>
      [] s = "--standalone" -> << "-", "-", "s", "t", "a", "n", "d", "a", "l", "o", "n", "e" >>
      [] s = "--nproc_per_node=" -> << "-", "-", "n", "p", "r", "o", "c", "_", "p", "e", "r", "_", "n", "o", "d", "e", "=" >>
      [] s = "--nnodes=1" -> << "-", "-", "n", "n", "o", "d", "e", "s", "=", "1" >>
      [] s = "/repo/scripts/gr00t_finetune.py" -> << "/", "r", "e", "p", "o", "/", "s", "c", "r", "i", "p", "t", "s", "/", "g", "r", "0", "0", "t", "_", "f", "i", "n", "e", "t", "u", "n", "e", ".", "p", "y" >>
      [] s = "/data/train" -> << "/", "d", "a", "t", "a", "/", "t", "r", "a", "i", "n" >>
      [] s = "/data/val" -> << "/", "d", "a", "t", "a", "/", "v", "a", "l" >>
      [] s = "tensorboard" -> << "t", "e", "n", "s", "o", "r", "b", "o", "a", "r", "d" >>
      [] s = "epoch" -> << "e", "p", "o", "c", "h" >>
      [] s = "no" -> << "n", "o" >>
      [] s = "steps" -> << "s", "t", "e", "p", "s" >>
      [] s = "cosine" -> << "c", "o", "s", "i", "n", "e" >>
      [] s = "adamw_torch" -> << "a", "d", "a", "m", "w", "_", "t", "o", "r", "c", "h" >>
      [] s = "bfloat16" -> << "b", "f", "l", "o", "a", "t", "1", "6" >>

Digits == << "0", "1", "2", "3", "4", "5", "6", "7", "8", "9" >>

IsDigit(c) == \E d \in 1..10 : Digits[d] = c

DigitVal(c) == (CHOOSE d \in 1..10 : Digits[d] = c) - 1

AllDigits(s) == \A k \in 1..Len(s) : IsDigit(s[k])

RECURSIVE StrNat(_)
StrNat(n) ==
    IF n < 10 THEN << Digits[n + 1] >>
    ELSE StrNat(n \div 10) \o << Digits[(n % 10) + 1] >>

\* str(i) of a Python int.
StrInt(i) == IF i < 0 THEN << "-" >> \o StrNat(-i) ELSE StrNat(i)

RECURSIVE ParseNat(_)
ParseNat(s) ==
    IF Len(s) = 0 THEN 0
    ELSE 10 * ParseNat(SubSeq(s, 1, Len(s) - 1)) + DigitVal(s[Len(s)])

IsNatTok(s) == Len(s) > 0 /\ AllDigits(s)

\* Tokens int() accepts (an optional sign, then decimal digits).
IsIntTok(s) ==
    \/ IsNatTok(s)
    \/ Len(s) > 1 /\ s[1] \in {"-", "+"} /\ IsNatTok(Tail(s))

ParseInt(s) ==
    IF s[1] = "-" THEN 0 - ParseNat(Tail(s))
    ELSE IF s[1] = "+" THEN ParseNat(Tail(s))
    ELSE ParseNat(s)

\* First position of character c in s, 0 when absent.
IndexOf(s, c) ==
    IF \E k \in 1..Len(s) : s[k] = c
    THEN CHOOSE k \in 1..Len(s) : s[k] = c /\ \A j \in 1..(k - 1) : s[j] # c
    ELSE 0

\* s.replace(a, b) for single characters.
Replace(s, a, b) == [k \in 1..Len(s) |-> IF s[k] = a THEN b ELSE s[k]]

StartsWith(s, p) == Len(s) >= Len(p) /\ SubSeq(s, 1, Len(p)) = p

RECURSIVE Pow10(_)
Pow10(n) == IF n <= 0 THEN 1 ELSE 10 * Pow10(n - 1)

RECURSIVE Zeros(_)
Zeros(n) == IF n <= 0 THEN << >> ELSE << "0" >> \o Zeros(n - 1)

(***************************************************************************)
(* Python values.  A float is its shortest decimal m * 10^e (m >= 0, m not *)
(* a multiple of 10 unless it is 0), which repr() prints and float() reads *)
(* back to the same double.                                                *)
(***************************************************************************)
VBool(b) == [t |-> "bool", b |-> b, i |-> 0, e |-> 0, s |-> << >>, l |-> << >>]

VInt(i) == [t |-> "int", b |-> FALSE, i |-> i, e |-> 0, s |-> << >>, l |-> << >>]

VFloat(m, e) == [t |-> "float", b |-> FALSE, i |-> m, e |-> e, s |-> << >>, l |-> << >>]

VStr(s) == [t |-> "str", b |-> FALSE, i |-> 0, e |-> 0, s |-> s, l |-> << >>]

VNone == [t |-> "none", b |-> FALSE, i |-> 0, e |-> 0, s |-> << >>, l |-> << >>]

VList(l) == [t |-> "list", b |-> FALSE, i |-> 0, e |-> 0, s |-> << >>, l |-> l]

RECURSIVE NormFloat(_, _)
NormFloat(m, e) ==
    IF m = 0 THEN VFloat(0, 0)
    ELSE IF m % 10 = 0 THEN NormFloat(m \div 10, e + 1)
    ELSE VFloat(m, e)

\* repr() of a float: fixed notation when the decimal point position is in
\* (-4, 16], exponent notation otherwise.
StrFloat(m, e) ==
    LET ds == StrNat(m)
        n == Len(ds)
        decpt == n + e
        x == decpt - 1
    IN  IF m = 0 THEN << "0", ".", "0" >>
        ELSE IF decpt > -4 /\ decpt <= 16
        THEN IF decpt <= 0 THEN << "0", "." >> \o Zeros(0 - decpt) \o ds
             ELSE IF decpt >= n THEN ds \o Zeros(decpt - n) \o << ".", "0" >>
             ELSE SubSeq(ds, 1, decpt) \o << "." >> \o SubSeq(ds, decpt + 1, n)
        ELSE << ds[1] >>
             \o (IF n > 1 THEN << "." >> \o SubSeq(ds, 2, n) ELSE << >>)
             \o << "e" >>
             \o (IF x < 0 THEN << "-" >> ELSE << "+" >>)
             \o (IF (IF x < 0 THEN 0 - x ELSE x) < 10 THEN << "0" >> ELSE << >>)
             \o StrNat(IF x < 0 THEN 0 - x ELSE x)

\* The mantissa and exponent parts of a float literal.
FloatMant(s) ==
    LET p == IF IndexOf(s, "e") # 0 THEN IndexOf(s, "e") ELSE IndexOf(s, "E")
    IN  IF p = 0 THEN s ELSE SubSeq(s, 1, p - 1)

FloatExp(s) ==
    LET p == IF IndexOf(s, "e") # 0 THEN IndexOf(s, "e") ELSE IndexOf(s, "E")
    IN  IF p = 0 THEN << "0" >> ELSE SubSeq(s, p + 1, Len(s))

FloatIntPart(s) ==
    LET mt == FloatMant(s)
        d == IndexOf(mt, ".")
    IN  IF d = 0 THEN mt ELSE SubSeq(mt, 1, d - 1)

FloatFracPart(s) ==
    LET mt == FloatMant(s)
        d == IndexOf(mt, ".")
    IN  IF d = 0 THEN << >> ELSE SubSeq(mt, d + 1, Len(mt))

\* Tokens float() accepts, non-negative literals only: digits, an optional
\* fraction, an optional exponent.
IsFloatTok(s) ==
    /\ Len(s) > 0
    /\ AllDigits(FloatIntPart(s))
    /\ AllDigits(FloatFracPart(s))
    /\ Len(FloatIntPart(s)) + Len(FloatFracPart(s)) > 0
    /\ IsIntTok(FloatExp(s))

ParseFloat(s) ==
    NormFloat(ParseNat(FloatIntPart(s) \o FloatFracPart(s)),
              ParseInt(FloatExp(s)) - Len(FloatFracPart(s)))

\* repr() of a str inside a list: single quotes.
Quoted(s) == << "'" >> \o s \o << "'" >>

RECURSIVE JoinReprs(_)
JoinReprs(l) ==
    IF Len(l) = 0 THEN << >>
    ELSE IF Len(l) = 1 THEN Quoted(l[1])
    ELSE Quoted(l[1]) \o << ",", " " >> \o JoinReprs(Tail(l))

\* str(value).
Str(v) ==
    CASE v.t = "bool" -> IF v.b THEN << "T", "r", "u", "e" >>
                         ELSE << "F", "a", "l", "s", "e" >>
      [] v.t = "int" -> StrInt(v.i)
      [] v.t = "float" -> StrFloat(v.i, v.e)
      [] v.t = "str" -> v.s
      [] v.t = "none" -> << "N", "o", "n", "e" >>
      [] v.t = "list" -> << "[" >> \o JoinReprs(v.l) \o << "]" >>

IsNumber(v) == v.t \in {"int", "float"}

\* Python's == on two values (an int equals the float of the same value).
PyEq(a, b) ==
    IF IsNumber(a) /\ IsNumber(b)
    THEN NormFloat(a.i, a.e) = NormFloat(b.i, b.e)
    ELSE a = b

\* v < 1 for a non-negative number.
LessThanOne(v) ==
    IF v.t = "int" \/ v.e >= 0 THEN v.i < 1 ELSE v.i < Pow10(0 - v.e)

\* int(v * n) for a non-negative number v and a length n.  The product is
\* exact for the split ratios the model draws (multiples of 1/4).
IntOfProduct(v, n) ==
    IF v.t = "int" THEN v.i * n
    ELSE IF v.e >= 0 THEN v.i * Pow10(v.e) * n
    ELSE (v.i * n) \div Pow10(0 - v.e)

(***************************************************************************)
(* The Config dataclass: its declared fields, in declaration order, with   *)
(* the annotated type and the default.  dataset_path has no default.       *)
(***************************************************************************)
VMissing == [t |-> "missing", b |-> FALSE, i |-> 0, e |-> 0, s |-> << >>, l |-> << >>]

Field(n, ty, d) == [name |-> n, type |-> ty, default |-> d]

ConfigFields ==
    << Field("dataset_path", "str", VMissing),
       Field("validation_dataset_path", "optstr", VNone),
       Field("output_dir", "str", VStr(Chars("/tmp/gr00t"))),
       Field("data_config", "str", VStr(Chars("gr1_arms_only"))),
       Field("num_arms", "int", VInt(1)),
       Field("num_cams", "int", VInt(1)),
       Field("batch_size", "int", VInt(16)),
       Field("max_steps", "int", VInt(10000)),
       Field("num_epochs", "int", VInt(10)),
       Field("num_gpus", "int", VInt(1)),
       Field("save_steps", "int", VInt(500)),
       Field("base_model_path", "str", VStr(Chars("nvidia/GR00T-N1-2B"))),
       Field("tune_llm", "bool", VBool(FALSE)),
       Field("tune_visual", "bool", VBool(FALSE)),
       Field("tune_projector", "bool", VBool(TRUE)),
       Field("tune_diffusion_model", "bool", VBool(FALSE)),
       Field("resume", "bool", VBool(FALSE)),
       Field("learning_rate", "float", VFloat(1, -4)),
       Field("weight_decay", "float", VFloat(1, -5)),
       Field("warmup_ratio", "float", VFloat(5, -2)),
       Field("lora_rank", "int", VInt(0)),
       Field("lora_alpha", "int", VInt(16)),
       Field("lora_dropout", "float", VFloat(1, -1)),
       Field("dataloader_num_workers", "int", VInt(8)),
       Field("report_to", "str", VStr(Chars("wandb"))),
       Field("embodiment_tag", "str", VStr(Chars("new_embodiment"))),
       Field("video_backend", "str", VStr(Chars("decord"))),
       Field("train_test_split", "float", VInt(1)) >>

FieldNames == {ConfigFields[k].name : k \in 1..Len(ConfigFields)}

FieldOf(n) == ConfigFields[CHOOSE k \in 1..Len(ConfigFields) : ConfigFields[k].name = n]

\* vars(config): the instance's attributes, in insertion order.
Keys(cfg) == {cfg[k].key : k \in 1..Len(cfg)}

Get(cfg, key) == cfg[CHOOSE k \in 1..Len(cfg) : cfg[k].key = key].value

\* config.key = value: an existing attribute keeps its place, a new one goes
\* last.
SetAttr(cfg, key, v) ==
    IF key \in Keys(cfg)
    THEN LET at == CHOOSE k \in 1..Len(cfg) : cfg[k].key = key
         IN  SubSeq(cfg, 1, at - 1) \o << [key |-> key, value |-> v] >>
             \o SubSeq(cfg, at + 1, Len(cfg))
    ELSE Append(cfg, [key |-> key, value |-> v])

\* The instance the dataclass __init__ builds when no flag is given.
DefaultConfig ==
    [k \in 1..Len(ConfigFields) |->
        [key |-> ConfigFields[k].name, value |-> ConfigFields[k].default]]

(***************************************************************************)
(* Command-line flags.                                                     *)
(***************************************************************************)
Dashed(key) == Replace(Chars(key), "_", "-")

FlagOf(key) == << "-", "-" >> \o Dashed(key)

NoFlagOf(key) == << "-", "-", "n", "o", "-" >> \o Dashed(key)

\* Faulty variant: a False bool contributes nothing.
ArgsOfEntryTrueOnly(key, value) ==
    IF value.t = "bool"
    THEN IF value.b THEN << FlagOf(key) >> ELSE << >>
    ELSE << FlagOf(key), Str(value) >>

\* The arguments one attribute contributes to the re-exec command line.
ArgsOfEntry(key, value) ==
    IF value.t = "bool"
    THEN IF value.b THEN << FlagOf(key) >> ELSE << NoFlagOf(key) >>
    ELSE << FlagOf(key), Str(value) >>

\* "Convert config to command line arguments": the loop over
\* vars(config).items().
RECURSIVE ArgsFrom(_, _)
ArgsFrom(cfg, k) ==
    IF k > Len(cfg) THEN << >>
    ELSE ArgsOfEntry(cfg[k].key, cfg[k].value) \o ArgsFrom(cfg, k + 1)

ConfigToArgs(cfg) == ArgsFrom(cfg, 1)

(***************************************************************************)
(* tyro.cli(Config): one flag per declared field, --name / --no-name for a *)
(* bool, --name VALUE otherwise, the value converted by the field's type   *)
(* ("None" reads as None for str | None).  Underscores in a flag name are  *)
(* read as dashes.  An unrecognized flag, a missing or unconvertible value *)
(* or a missing required field makes the parser exit with status 2.        *)
(***************************************************************************)
Convertible(type, tok) ==
    CASE type = "int" -> IsIntTok(tok)
      [] type = "float" -> IsFloatTok(tok)
      [] OTHER -> TRUE

Convert(type, tok) ==
    CASE type = "int" -> VInt(ParseInt(tok))
      [] type = "float" -> ParseFloat(tok)
      [] type = "optstr" -> IF tok = << "N", "o", "n", "e" >> THEN VNone ELSE VStr(tok)
      [] OTHER -> VStr(tok)

\* The flags the parser knows: --name for every declared field, --no-name
\* for every declared bool.
DeclaredFlags == {<< FlagOf(n), n >> : n \in FieldNames}

DeclaredNoFlags == {<< NoFlagOf(n), n >> : n \in {x \in FieldNames : FieldOf(x).type = "bool"}}

ParseError == [ok |-> FALSE, config |-> << >>]

RECURSIVE ParseFrom(_, _, _)
ParseFrom(argv, pos, cfg) ==
    IF pos > Len(argv)
    THEN IF \E k \in 1..Len(cfg) : cfg[k].value = VMissing
         THEN ParseError
         ELSE [ok |-> TRUE, config |-> cfg]
    ELSE
      LET tok == SubSeq(Replace(argv[pos], "_", "-"), 1, Len(argv[pos]))
          pos_flags == {n \in FieldNames : << tok, n >> \in DeclaredFlags}
          neg_flags == {n \in FieldNames : << tok, n >> \in DeclaredNoFlags}
          name == CHOOSE x \in pos_flags \cup neg_flags : TRUE
          type == FieldOf(name).type
          takes_value == pos_flags # {} /\ type # "bool"
          value ==
              IF takes_value THEN Convert(type, argv[pos + 1])
              ELSE VBool(pos_flags # {})
          updated == SetAttr(cfg, name, value)
      IN  IF pos_flags \cup neg_flags = {} THEN ParseError
          ELSE IF takes_value /\ (pos + 1 > Len(argv) \/ ~Convertible(type, argv[pos + 1]))
          THEN ParseError
          ELSE IF Len(updated) # Len(cfg) THEN ParseError
          ELSE ParseFrom(argv, IF takes_value THEN pos + 2 ELSE pos + 1, updated)

TyroCli(argv) == ParseFrom(argv, 1, DefaultConfig)

(***************************************************************************)
(* The program's decisions, one operator per piece of code.                *)
(***************************************************************************)
Unset == "<unset>"

\* torch.cuda.device_count() if torch.cuda.is_available() else 1
AvailableGpus(devices) == IF devices > 0 THEN devices ELSE 1

\* Faulty variant: the upper-bound assertion is missing.
GpuCountValidNoUpperBound(g, available) == g > 0

\* The two assertions on config.num_gpus.
GpuCountValid(g, available) == g <= available /\ g > 0

\* Faulty variant: the recursion guard is not consulted.
DispatchModeIgnoringGuard(g, e) == IF g = 1 THEN "single" ELSE "torchrun"

\* Faulty variant: the recursion guard is consulted before the count.
DispatchModeGuardFirst(g, e) ==
    IF e.IS_TORCHRUN = "1" THEN "inprocess"
    ELSE IF g = 1 THEN "single"
    ELSE "torchrun"

\* The branch taken after validation.
DispatchMode(g, e) ==
    IF g = 1 THEN "single"
    ELSE IF (IF e.IS_TORCHRUN = Unset THEN "0" ELSE e.IS_TORCHRUN) = "1" THEN "inprocess"
    ELSE "torchrun"

\* os.environ after "del os.environ['CUDA_VISIBLE_DEVICES']" (when present).
WithoutCuda(e) == [e EXCEPT !.CUDA_VISIBLE_DEVICES = Unset]

\* Faulty variant: the copy is handed over without the guard.
ChildEnvWithoutGuard(e) == e

\* env = os.environ.copy(); env["IS_TORCHRUN"] = "1"
ChildEnv(e) == [e EXCEPT !.IS_TORCHRUN = "1"]

ScriptPath == Chars("/repo/scripts/gr00t_finetune.py")

\* The command line handed to subprocess.run.
TorchrunCmd(cfg) ==
    << Chars("torchrun"),
       Chars("--standalone"),
       Chars("--nproc_per_node=") \o Str(Get(cfg, "num_gpus")),
       Chars("--nnodes=1"),
       ScriptPath >>
    \o ConfigToArgs(cfg)

\* The status a shell sees after sys.exit(returncode): the low 8 bits.
ExitStatus(returncode) == returncode % 256

\* Faulty variant: the split ratio is tested before the validation path.
EvalBranchSplitFirst(cfg) ==
    IF LessThanOne(Get(cfg, "train_test_split")) THEN "split"
    ELSE IF Get(cfg, "validation_dataset_path") # VNone THEN "validation"
    ELSE "none"

\* Which evaluation set main() prepares.
EvalBranch(cfg) ==
    IF Get(cfg, "validation_dataset_path") # VNone THEN "validation"
    ELSE IF LessThanOne(Get(cfg, "train_test_split")) THEN "split"
    ELSE "none"

\* train_size = int(config.train_test_split * len(full_dataset))
TrainSize(ratio, n) == IntOfProduct(ratio, n)

EvalSize(ratio, n) == n - TrainSize(ratio, n)

(***************************************************************************)
(* Objects main() builds.                                                  *)
(***************************************************************************)
NoData == [kind |-> "none", path |-> << >>, items |-> {}]

\* LeRobotSingleDataset(dataset_path=path, ...) over a directory of n items.
LeRobotSingleDataset(path, n) == [kind |-> "dataset", path |-> path, items |-> 1..n]

\* One part of random_split(dataset, lengths).
Subset(dataset, indices) == [kind |-> "subset", path |-> dataset.path, items |-> indices]

\* The parts random_split can return: it permutes the indices with the
\* default generator, which nothing seeds before the call, so every subset
\* of the right size can be the train part.
RandomSplits(dataset, train_size, eval_size) ==
    {<< Subset(dataset, t), Subset(dataset, dataset.items \ t) >> :
        t \in {x \in SUBSET dataset.items :
                  /\ Cardinality(x) = train_size
                  /\ Cardinality(dataset.items \ x) = eval_size}}

NoModel ==
    [loaded |-> FALSE, path |-> << >>, tune_llm |-> FALSE, tune_visual |-> FALSE,
     tune_projector |-> FALSE, tune_diffusion_model |-> FALSE,
     compute_dtype |-> << >>, lora_rank |-> 0, lora_alpha |-> 0, lora_dropout |-> VNone]

\* GR00T_N1.from_pretrained(...), compute dtype forced, LoRA when rank > 0.
LoadedModel(cfg) ==
    [loaded |-> TRUE,
     path |-> Get(cfg, "base_model_path").s,
     tune_llm |-> Get(cfg, "tune_llm").b,
     tune_visual |-> Get(cfg, "tune_visual").b,
     tune_projector |-> Get(cfg, "tune_projector").b,
     tune_diffusion_model |-> Get(cfg, "tune_diffusion_model").b,
     compute_dtype |-> Chars("bfloat16"),
     lora_rank |-> IF Get(cfg, "lora_rank").i > 0 THEN Get(cfg, "lora_rank").i ELSE 0,
     lora_alpha |-> IF Get(cfg, "lora_rank").i > 0 THEN Get(cfg, "lora_alpha").i ELSE 0,
     lora_dropout |-> IF Get(cfg, "lora_rank").i > 0 THEN Get(cfg, "lora_dropout") ELSE VNone]

\* Faulty variant: evaluation every epoch whether or not a set exists.
EvaluationStrategyAlwaysEpoch(eval_dataset) == VStr(Chars("epoch"))

\* evaluation_strategy="epoch" if eval_dataset is not None else "no"
EvaluationStrategy(eval_dataset) ==
    IF eval_dataset # NoData THEN VStr(Chars("epoch")) ELSE VStr(Chars("no"))

\* do_eval=eval_dataset is not None
DoEval(eval_dataset) == VBool(eval_dataset # NoData)

\* TrainingArguments(...): the keyword arguments the script passes;
\* max_steps is not among them and keeps the library default of -1.
TrainingArguments(cfg, eval_dataset) ==
    [output_dir |-> Get(cfg, "output_dir"),
     run_name |-> VNone,
     remove_unused_columns |-> VBool(FALSE),
     deepspeed |-> VStr(<< >>),
     gradient_checkpointing |-> VBool(FALSE),
     bf16 |-> VBool(TRUE),
     tf32 |-> VBool(TRUE),
     per_device_train_batch_size |-> Get(cfg, "batch_size"),
     gradient_accumulation_steps |-> VInt(1),
     dataloader_num_workers |-> Get(cfg, "dataloader_num_workers"),
     dataloader_pin_memory |-> VBool(FALSE),
     dataloader_persistent_workers |-> VBool(TRUE),
     optim |-> VStr(Chars("adamw_torch")),
     adam_beta1 |-> VFloat(95, -2),
     adam_beta2 |-> VFloat(999, -3),
     adam_epsilon |-> VFloat(1, -8),
     learning_rate |-> Get(cfg, "learning_rate"),
     weight_decay |-> Get(cfg, "weight_decay"),
     warmup_ratio |-> Get(cfg, "warmup_ratio"),
     lr_scheduler_type |-> VStr(Chars("cosine")),
     logging_steps |-> VFloat(1, 1),
     num_train_epochs |-> Get(cfg, "num_epochs"),
     save_strategy |-> VStr(Chars("steps")),
     save_steps |-> Get(cfg, "save_steps"),
     evaluation_strategy |-> EvaluationStrategy(eval_dataset),
     save_total_limit |-> VInt(8),
     report_to |-> Get(cfg, "report_to"),
     seed |-> VInt(42),
     do_eval |-> DoEval(eval_dataset),
     ddp_find_unused_parameters |-> VBool(FALSE),
     ddp_bucket_cap_mb |-> VInt(100),
     torch_compile_mode |-> VNone,
     max_steps |-> VInt(-1)]

\* No TrainingArguments object yet.
NoArgs == [unset |-> TRUE]

NoRunner ==
    [made |-> FALSE, train_dataset |-> NoData, eval_dataset |-> NoData,
     training_args |-> NoArgs, model |-> NoModel, resume_from_checkpoint |-> FALSE]

\* TrainRunner(train_dataset=..., model=..., training_args=..., ...)
TrainRunner(train, mdl, args, eval, resume) ==
    [made |-> TRUE, train_dataset |-> train, eval_dataset |-> eval,
     training_args |-> args, model |-> mdl, resume_from_checkpoint |-> resume]

(***************************************************************************)
(* State.                                                                  *)
(***************************************************************************)
VARIABLES
    user_argv,      \* the command line the user types (sys.argv[1:])
    shell_env,      \* the environment of the user's shell
    cuda_devices,   \* accelerator devices on the host
    pc,             \* each process's position in the script
    env,            \* each process's os.environ
    config,         \* each process's config object (vars(config))
    available_gpus, \* each process's available_gpus
    full_dataset,   \* main(): full_dataset
    train_dataset,  \* main(): train_dataset
    eval_dataset,   \* main(): eval_dataset
    runner,         \* main(): experiment (with model and training_args)
    cmd,            \* the command line each process handed to subprocess.run
    child_env,      \* the env each process handed to subprocess.run
    launched,       \* how many times each process called subprocess.run
    launcher,       \* the launcher each process is blocked on
    exit_code,      \* each process's exit status
    error,          \* why each process ended
    first_split     \* the split of the first run that split (history)

vars ==
    << user_argv, shell_env, cuda_devices, pc, env, config, available_gpus,
       full_dataset, train_dataset, eval_dataset, runner, cmd, child_env,
       launched, launcher, exit_code, error, first_split >>

\* Process 0 is the user's invocation; 1..MaxGpus are the workers torchrun
\* starts for it.
Root == 0

Workers == 1..MaxGpus

Procs == {Root} \cup Workers

NoEnv == [IS_TORCHRUN |-> Unset, CUDA_VISIBLE_DEVICES |-> Unset]

NoLauncher == [state |-> "none", returncode |-> 0]

NoSplit == [set |-> FALSE, n |-> 0, ratio |-> VNone, train |-> {}, eval |-> {}]

\* Signals that can end the launcher.
Signals == {9, 15}

(***************************************************************************)
(* The command lines the user types: --dataset-path and up to MaxOverrides *)
(* other flags, each for a different field, or nothing at all.             *)
(***************************************************************************)
Override(n, v) == [name |-> n, value |-> v]

OverridePool ==
    {Override("num_gpus", VInt(g)) : g \in {-1, 0} \cup 2..(MaxGpus + 1)}
    \cup {Override("train_test_split", VFloat(75, -2)),
          Override("train_test_split", VFloat(125, -2)),
          Override("validation_dataset_path", VStr(Chars("/data/val"))),
          Override("tune_llm", VBool(TRUE)),
          Override("tune_projector", VBool(FALSE)),
          Override("max_steps", VInt(5)),
          Override("learning_rate", VFloat(2, -5)),
          Override("report_to", VStr(Chars("tensorboard")))}

RECURSIVE OverrideSets(_)
OverrideSets(k) ==
    IF k = 0 THEN {{}}
    ELSE LET smaller == OverrideSets(k - 1)
         IN  smaller \cup
             {s \cup {o} : s \in smaller, o \in OverridePool}

Consistent(s) == \A a, b \in s : a.name = b.name => a = b

\* What the user types for one override.
TypedFlag(o) ==
    IF o.value.t = "bool"
    THEN IF o.value.b THEN << FlagOf(o.name) >> ELSE << NoFlagOf(o.name) >>
    ELSE << FlagOf(o.name), Str(o.value) >>

RECURSIVE FlagsFor(_, _)
FlagsFor(s, k) ==
    IF k > Len(ConfigFields) THEN << >>
    ELSE LET here == {o \in s : o.name = ConfigFields[k].name}
         IN  (IF here = {} THEN << >>
              ELSE LET o == CHOOSE x \in here : TRUE
                   IN  TypedFlag(o))
             \o FlagsFor(s, k + 1)

UserArgvs ==
    {<< >>} \cup
    {<< FlagOf("dataset_path"), Chars("/data/train") >> \o FlagsFor(s, 1) :
        s \in {x \in OverrideSets(MaxOverrides) : Consistent(x)}}

(***************************************************************************)
(* Init: the user's invocation is about to start; no worker exists.        *)
(***************************************************************************)
Fresh ==
    /\ pc = [p \in Procs |-> IF p = Root THEN "start" ELSE "idle"]
    /\ env = [p \in Procs |-> IF p = Root THEN shell_env ELSE NoEnv]
    /\ config = [p \in Procs |-> << >>]
    /\ available_gpus = [p \in Procs |-> 0]
    /\ full_dataset = [p \in Procs |-> NoData]
    /\ train_dataset = [p \in Procs |-> NoData]
    /\ eval_dataset = [p \in Procs |-> NoData]
    /\ runner = [p \in Procs |-> NoRunner]
    /\ cmd = [p \in Procs |-> << >>]
    /\ child_env = [p \in Procs |-> NoEnv]
    /\ launched = [p \in Procs |-> 0]
    /\ launcher = [p \in Procs |-> NoLauncher]
    /\ exit_code = [p \in Procs |-> 0]
    /\ error = [p \in Procs |-> "none"]

Init ==
    /\ user_argv \in UserArgvs
    /\ shell_env \in [IS_TORCHRUN : {Unset, "1"}, CUDA_VISIBLE_DEVICES : {Unset, "1"}]
    /\ cuda_devices \in 0..MaxGpus
    /\ first_split = NoSplit
    /\ Fresh

(***************************************************************************)
(* The script, step by step, for process p.                                *)
(***************************************************************************)
\* sys.argv[1:] of process p: the user's command line for the root, the
\* arguments after the script path of the launcher's command for a worker.
ArgvOf(p) == IF p = Root THEN user_argv ELSE SubSeq(cmd[Root], 6, Len(cmd[Root]))

Exit(p, code, why) ==
    /\ pc' = [pc EXCEPT ![p] = "exit"]
    /\ exit_code' = [exit_code EXCEPT ![p] = code]
    /\ error' = [error EXCEPT ![p] = why]

\* config = tyro.cli(Config)
Parse(p) ==
    /\ pc[p] = "start"
    /\ LET r == TyroCli(ArgvOf(p))
       IN  IF r.ok
           THEN /\ config' = [config EXCEPT ![p] = r.config]
                /\ pc' = [pc EXCEPT ![p] = "parsed"]
                /\ UNCHANGED << exit_code, error >>
           ELSE /\ Exit(p, 2, "usage")
                /\ UNCHANGED config
    /\ UNCHANGED << user_argv, shell_env, cuda_devices, env, available_gpus,
                    full_dataset, train_dataset, eval_dataset, runner, cmd,
                    child_env, launched, launcher, first_split >>

\* config.video_keys / state_keys / action_keys = [...]; the printout;
\* available_gpus = ...
SetKeys(p) ==
    /\ pc[p] = "parsed"
    /\ config' = [config EXCEPT ![p] =
          SetAttr(SetAttr(SetAttr(config[p],
              "video_keys", VList(<< Chars("video.image_cam_0"), Chars("video.image_cam_1") >>)),
              "state_keys", VList(<< Chars("state.arm_0") >>)),
              "action_keys", VList(<< Chars("action.arm_0") >>))]
    /\ available_gpus' = [available_gpus EXCEPT ![p] = AvailableGpus(cuda_devices)]
    /\ pc' = [pc EXCEPT ![p] = "validate"]
    /\ UNCHANGED << user_argv, shell_env, cuda_devices, env, full_dataset,
                    train_dataset, eval_dataset, runner, cmd, child_env,
                    launched, launcher, exit_code, error, first_split >>

\* The two assert statements.
Validate(p) ==
    /\ pc[p] = "validate"
    /\ IF GpuCountValid(Get(config[p], "num_gpus").i, available_gpus[p])
       THEN /\ pc' = [pc EXCEPT ![p] = "dispatch"]
            /\ UNCHANGED << exit_code, error >>
       ELSE Exit(p, 1, "AssertionError")
    /\ UNCHANGED << user_argv, shell_env, cuda_devices, env, config,
                    available_gpus, full_dataset, train_dataset, eval_dataset,
                    runner, cmd, child_env, launched, launcher, first_split >>

\* num_gpus == 1: os.environ["CUDA_VISIBLE_DEVICES"] = "0"; main(config)
DispatchSingle(p) ==
    /\ pc[p] = "dispatch"
    /\ DispatchMode(Get(config[p], "num_gpus").i, env[p]) = "single"
    /\ env' = [env EXCEPT ![p] = [@ EXCEPT !.CUDA_VISIBLE_DEVICES = "0"]]
    /\ pc' = [pc EXCEPT ![p] = "main"]
    /\ UNCHANGED << user_argv, shell_env, cuda_devices, config, available_gpus,
                    full_dataset, train_dataset, eval_dataset, runner, cmd,
                    child_env, launched, launcher, exit_code, error, first_split >>

\* IS_TORCHRUN == "1": main(config)
DispatchInProcess(p) ==
    /\ pc[p] = "dispatch"
    /\ DispatchMode(Get(config[p], "num_gpus").i, env[p]) = "inprocess"
    /\ pc' = [pc EXCEPT ![p] = "main"]
    /\ UNCHANGED << user_argv, shell_env, cuda_devices, env, config,
                    available_gpus, full_dataset, train_dataset, eval_dataset,
                    runner, cmd, child_env, launched, launcher, exit_code,
                    error, first_split >>

\* The workers torchrun starts: --nproc_per_node of them.
NprocOf(c) ==
    ParseInt(SubSeq(c[3], Len(Chars("--nproc_per_node=")) + 1, Len(c[3])))

\* Multi-GPU mode: build the command, copy the environment, subprocess.run.
\* The launcher starts its workers with the environment it was given.  Only
\* the root's workers are modelled as processes.
DispatchTorchrun(p) ==
    /\ pc[p] = "dispatch"
    /\ DispatchMode(Get(config[p], "num_gpus").i, env[p]) = "torchrun"
    /\ LET e == WithoutCuda(env[p])
           c == TorchrunCmd(config[p])
           ce == ChildEnv(e)
       IN  /\ cmd' = [cmd EXCEPT ![p] = c]
           /\ child_env' = [child_env EXCEPT ![p] = ce]
           /\ env' = [q \in Procs |->
                        IF q = p THEN e
                        ELSE IF p = Root /\ q \in 1..NprocOf(c) THEN ce
                        ELSE env[q]]
           /\ pc' = [q \in Procs |->
                        IF q = p THEN "wait"
                        ELSE IF p = Root /\ q \in 1..NprocOf(c) THEN "start"
                        ELSE pc[q]]
    /\ launched' = [launched EXCEPT ![p] = @ + 1]
    /\ launcher' = [launcher EXCEPT ![p] = [state |-> "running", returncode |-> 0]]
    /\ UNCHANGED << user_argv, shell_env, cuda_devices, config, available_gpus,
                    full_dataset, train_dataset, eval_dataset, runner,
                    exit_code, error, first_split >>

\* The workers of process p's launcher.
WorkersOf(p) == IF p = Root THEN {q \in Workers : pc[q] # "idle"} ELSE {}

\* The launcher ends once its workers have: status 0 when all of them
\* succeeded, a failure status otherwise.
LauncherExits(p) ==
    /\ launcher[p].state = "running"
    /\ \A q \in WorkersOf(p) : pc[q] = "exit"
    /\ \E code \in 0..MaxExitCode :
          /\ (code = 0) = (\A q \in WorkersOf(p) : exit_code[q] = 0)
          /\ launcher' = [launcher EXCEPT ![p] = [state |-> "exited", returncode |-> code]]
    /\ UNCHANGED << user_argv, shell_env, cuda_devices, pc, env, config,
                    available_gpus, full_dataset, train_dataset, eval_dataset,
                    runner, cmd, child_env, launched, exit_code, error,
                    first_split >>

\* The launcher is killed by a signal: subprocess reports -signal.
LauncherKilled(p) ==
    /\ launcher[p].state = "running"
    /\ \E sig \in Signals :
          launcher' = [launcher EXCEPT ![p] = [state |-> "killed", returncode |-> 0 - sig]]
    /\ UNCHANGED << user_argv, shell_env, cuda_devices, pc, env, config,
                    available_gpus, full_dataset, train_dataset, eval_dataset,
                    runner, cmd, child_env, launched, exit_code, error,
                    first_split >>

\* sys.exit(subprocess.run(cmd, env=env).returncode)
WaitReturns(p) ==
    /\ pc[p] = "wait"
    /\ launcher[p].state \in {"exited", "killed"}
    /\ Exit(p, ExitStatus(launcher[p].returncode), "forwarded")
    /\ UNCHANGED << user_argv, shell_env, cuda_devices, env, config,
                    available_gpus, full_dataset, train_dataset, eval_dataset,
                    runner, cmd, child_env, launched, launcher, first_split >>

(***************************************************************************)
(* main(config).                                                           *)
(***************************************************************************)
\* Step 1 up to full_dataset: the embodiment tag, the data configuration,
\* the primary dataset, over a directory of n items.
LoadDataset(p) ==
    /\ pc[p] = "main"
    /\ \E n \in 1..MaxLen :
          full_dataset' = [full_dataset EXCEPT ![p] =
              LeRobotSingleDataset(Get(config[p], "dataset_path").s, n)]
    /\ pc' = [pc EXCEPT ![p] = "select"]
    /\ UNCHANGED << user_argv, shell_env, cuda_devices, env, config,
                    available_gpus, train_dataset, eval_dataset, runner, cmd,
                    child_env, launched, launcher, exit_code, error,
                    first_split >>

\* An unrecognized tag or an unreadable dataset directory: the library
\* raises and the process ends with a traceback.
LoadDatasetFails(p) ==
    /\ pc[p] = "main"
    /\ Exit(p, 1, "exception")
    /\ UNCHANGED << user_argv, shell_env, cuda_devices, env, config,
                    available_gpus, full_dataset, train_dataset, eval_dataset,
                    runner, cmd, child_env, launched, launcher, first_split >>

\* "Validation dataset logic", explicit validation path: a second dataset
\* over a directory of m items; training uses the full dataset.
SelectValidation(p) ==
    /\ pc[p] = "select"
    /\ EvalBranch(config[p]) = "validation"
    /\ \E m \in 1..MaxLen :
          eval_dataset' = [eval_dataset EXCEPT ![p] =
              LeRobotSingleDataset(Get(config[p], "validation_dataset_path").s, m)]
    /\ train_dataset' = [train_dataset EXCEPT ![p] = full_dataset[p]]
    /\ pc' = [pc EXCEPT ![p] = "model"]
    /\ UNCHANGED << user_argv, shell_env, cuda_devices, env, config,
                    available_gpus, full_dataset, runner, cmd, child_env,
                    launched, launcher, exit_code, error, first_split >>

\* train_test_split < 1: random_split(full_dataset, [train_size, eval_size]).
SelectSplit(p) ==
    /\ pc[p] = "select"
    /\ EvalBranch(config[p]) = "split"
    /\ LET ratio == Get(config[p], "train_test_split")
           n == Cardinality(full_dataset[p].items)
       IN  \E parts \in RandomSplits(full_dataset[p], TrainSize(ratio, n), EvalSize(ratio, n)) :
              /\ train_dataset' = [train_dataset EXCEPT ![p] = parts[1]]
              /\ eval_dataset' = [eval_dataset EXCEPT ![p] = parts[2]]
              /\ first_split' =
                    IF first_split.set THEN first_split
                    ELSE [set |-> TRUE, n |-> n, ratio |-> ratio,
                          train |-> parts[1].items, eval |-> parts[2].items]
    /\ pc' = [pc EXCEPT ![p] = "model"]
    /\ UNCHANGED << user_argv, shell_env, cuda_devices, env, config,
                    available_gpus, full_dataset, runner, cmd, child_env,
                    launched, launcher, exit_code, error >>

\* Neither: no evaluation set.
SelectNone(p) ==
    /\ pc[p] = "select"
    /\ EvalBranch(config[p]) = "none"
    /\ train_dataset' = [train_dataset EXCEPT ![p] = full_dataset[p]]
    /\ pc' = [pc EXCEPT ![p] = "model"]
    /\ UNCHANGED << user_argv, shell_env, cuda_devices, env, config,
                    available_gpus, full_dataset, eval_dataset, runner, cmd,
                    child_env, launched, launcher, exit_code, error,
                    first_split >>

\* Step 2: the model, the training arguments, the runner.
BuildRunner(p) ==
    /\ pc[p] = "model"
    /\ runner' = [runner EXCEPT ![p] =
          TrainRunner(train_dataset[p],
                      LoadedModel(config[p]),
                      TrainingArguments(config[p], eval_dataset[p]),
                      eval_dataset[p],
                      Get(config[p], "resume").b)]
    /\ pc' = [pc EXCEPT ![p] = "train"]
    /\ UNCHANGED << user_argv, shell_env, cuda_devices, env, config,
                    available_gpus, full_dataset, train_dataset, eval_dataset,
                    cmd, child_env, launched, launcher, exit_code, error,
                    first_split >>

\* experiment.train() returns and the script ends.
Train(p) ==
    /\ pc[p] = "train"
    /\ Exit(p, 0, "none")
    /\ UNCHANGED << user_argv, shell_env, cuda_devices, env, config,
                    available_gpus, full_dataset, train_dataset, eval_dataset,
                    runner, cmd, child_env, launched, launcher, first_split >>

\* experiment.train() raises: nothing catches it.
TrainFails(p) ==
    /\ pc[p] = "train"
    /\ Exit(p, 1, "exception")
    /\ UNCHANGED << user_argv, shell_env, cuda_devices, env, config,
                    available_gpus, full_dataset, train_dataset, eval_dataset,
                    runner, cmd, child_env, launched, launcher, first_split >>

(***************************************************************************)
(* The user runs the same command line again, in the same shell, once the  *)
(* previous run and its workers have ended.                                *)
(***************************************************************************)
Rerun ==
    /\ pc[Root] = "exit"
    /\ \A q \in Workers : pc[q] \in {"idle", "exit"}
    /\ pc' = [p \in Procs |-> IF p = Root THEN "start" ELSE "idle"]
    /\ env' = [p \in Procs |-> IF p = Root THEN shell_env ELSE NoEnv]
    /\ config' = [p \in Procs |-> << >>]
    /\ available_gpus' = [p \in Procs |-> 0]
    /\ full_dataset' = [p \in Procs |-> NoData]
    /\ train_dataset' = [p \in Procs |-> NoData]
    /\ eval_dataset' = [p \in Procs |-> NoData]
    /\ runner' = [p \in Procs |-> NoRunner]
    /\ cmd' = [p \in Procs |-> << >>]
    /\ child_env' = [p \in Procs |-> NoEnv]
    /\ launched' = [p \in Procs |-> 0]
    /\ launcher' = [p \in Procs |-> NoLauncher]
    /\ exit_code' = [p \in Procs |-> 0]
    /\ error' = [p \in Procs |-> "none"]
    /\ UNCHANGED << user_argv, shell_env, cuda_devices, first_split >>

Step(p) ==
    \/ Parse(p)
    \/ SetKeys(p)
    \/ Validate(p)
    \/ DispatchSingle(p)
    \/ DispatchInProcess(p)
    \/ DispatchTorchrun(p)
    \/ LauncherExits(p)
    \/ LauncherKilled(p)
    \/ WaitReturns(p)
    \/ LoadDataset(p)
    \/ LoadDatasetFails(p)
    \/ SelectValidation(p)
    \/ SelectSplit(p)
    \/ SelectNone(p)
    \/ BuildRunner(p)
    \/ Train(p)
    \/ TrainFails(p)

Next == (\E p \in Procs : Step(p)) \/ Rerun

Spec == Init /\ [][Next]_vars

(***************************************************************************)
(* Properties.                                                             *)
(***************************************************************************)
Parsed(p) == config[p] # << >>

NumGpus(p) == Get(config[p], "num_gpus").i

InMain(p) == pc[p] \in {"main", "select", "model", "train"}

NothingBuilt(p) ==
    /\ full_dataset[p] = NoData
    /\ train_dataset[p] = NoData
    /\ eval_dataset[p] = NoData
    /\ ~runner[p].made

C2_ValidationPathWins ==
    \A p \in Procs :
        (runner[p].made /\ Get(config[p], "validation_dataset_path") # VNone)
        => /\ runner[p].eval_dataset.kind = "dataset"
           /\ runner[p].eval_dataset.path = Get(config[p], "validation_dataset_path").s
           /\ runner[p].eval_dataset = eval_dataset[p]
           /\ runner[p].train_dataset = full_dataset[p]
           /\ full_dataset[p].kind = "dataset"
           /\ full_dataset[p].path = Get(config[p], "dataset_path").s

C2_Witness ==
    \E p \in Procs :
        /\ runner[p].made
        /\ Get(config[p], "validation_dataset_path") # VNone
        /\ LessThanOne(Get(config[p], "train_test_split"))
        /\ Cardinality(full_dataset[p].items) > 1

\* C3: with validation_dataset_path unset and train_test_split = r < 1 over
\* N items, the train part has floor(r * N) items, the eval part the other
\* N - floor(r * N), and a run puts the same items in each part as the
\* first run that split the same N by the same r.
C3_SplitSizesAndDeterminism ==
    \A p \in Procs :
        (/\ Parsed(p)
         /\ pc[p] \in {"model", "train", "exit"}
         /\ full_dataset[p] # NoData
         /\ Get(config[p], "validation_dataset_path") = VNone
         /\ LessThanOne(Get(config[p], "train_test_split")))
        => LET n == Cardinality(full_dataset[p].items)
               r == Get(config[p], "train_test_split")
           IN  /\ Cardinality(train_dataset[p].items) = (r.i * n) \div Pow10(0 - r.e)
               /\ Cardinality(eval_dataset[p].items) = n - Cardinality(train_dataset[p].items)
               /\ (first_split.set /\ first_split.n = n /\ first_split.ratio = r)
                  => /\ train_dataset[p].items = first_split.train
                     /\ eval_dataset[p].items = first_split.eval

\* C4: evaluation is on exactly when an evaluation set exists; with
\* validation_dataset_path unset and train_test_split = 1 there is none,
\* the runner trains on the whole dataset, the strategy is "no" and do_eval
\* is false; with an evaluation set the strategy is "epoch" and do_eval is
\* true.
C4_EvalOnlyWithEvalSet ==
    \A p \in Procs :
        runner[p].made
        => /\ (Get(config[p], "validation_dataset_path") = VNone
               /\ PyEq(Get(config[p], "train_test_split"), VInt(1)))
              => /\ eval_dataset[p] = NoData
                 /\ runner[p].eval_dataset = NoData
                 /\ runner[p].train_dataset = full_dataset[p]
           /\ runner[p].eval_dataset = NoData
              => /\ runner[p].training_args.evaluation_strategy.s = << "n", "o" >>
                 /\ runner[p].training_args.do_eval.b = FALSE
           /\ runner[p].eval_dataset # NoData
              => /\ runner[p].training_args.evaluation_strategy.s = << "e", "p", "o", "c", "h" >>
                 /\ runner[p].training_args.do_eval.b = TRUE

C4_Witness ==
    \E p \in Procs :
        /\ runner[p].made
        /\ Get(config[p], "validation_dataset_path") = VNone
        /\ PyEq(Get(config[p], "train_test_split"), VInt(1))
        /\ runner[p].training_args.evaluation_strategy.s = << "n", "o" >>

\* C5: a process with num_gpus > 1, num_gpus <= available devices and the
\* recursion guard not "1" never runs main() itself; once past the dispatch
\* it has called the launcher exactly once, with --nproc_per_node=<num_gpus>
\* and --nnodes=1, in an environment with IS_TORCHRUN = "1" and without
\* CUDA_VISIBLE_DEVICES, which is the environment its workers run in; and
\* when the launcher exited, the process's exit code is the launcher's.
C5_FanOut ==
    \A p \in Procs :
        (/\ Parsed(p)
         /\ NumGpus(p) > 1
         /\ NumGpus(p) <= AvailableGpus(cuda_devices)
         /\ env[p].IS_TORCHRUN # "1")
        => /\ ~InMain(p)
           /\ NothingBuilt(p)
           /\ pc[p] \in {"parsed", "validate", "dispatch", "wait", "exit"}
           /\ launched[p] = (IF pc[p] \in {"wait", "exit"} THEN 1 ELSE 0)
           /\ pc[p] \in {"wait", "exit"}
              => /\ cmd[p][1] = << "t", "o", "r", "c", "h", "r", "u", "n" >>
                 /\ cmd[p][3] = << "-", "-", "n", "p", "r", "o", "c", "_", "p", "e", "r", "_",
                                   "n", "o", "d", "e", "=" >> \o StrInt(NumGpus(p))
                 /\ cmd[p][4] = << "-", "-", "n", "n", "o", "d", "e", "s", "=", "1" >>
                 /\ child_env[p].IS_TORCHRUN = "1"
                 /\ child_env[p].CUDA_VISIBLE_DEVICES = Unset
                 /\ \A q \in WorkersOf(p) : env[q] = child_env[p]
                 /\ Cardinality(WorkersOf(p)) = (IF p = Root THEN NumGpus(p) ELSE 0)
           /\ (pc[p] = "exit" /\ launcher[p].state = "exited")
              => exit_code[p] = launcher[p].returncode

C5_Witness ==
    /\ Parsed(Root)
    /\ NumGpus(Root) > 1
    /\ shell_env.CUDA_VISIBLE_DEVICES = "1"
    /\ pc[Root] = "exit"
    /\ launcher[Root].state = "exited"
    /\ exit_code[Root] = launcher[Root].returncode
    /\ exit_code[Root] > 1

RECURSIVE SumLaunched(_)
SumLaunched(ps) ==
    IF ps = {} THEN 0
    ELSE LET q == CHOOSE x \in ps : TRUE
         IN  launched[q] + SumLaunched(ps \ {q})

TotalLaunched == SumLaunched(Procs)

\* C6: a process whose environment has IS_TORCHRUN = "1" never calls the
\* launcher; with num_gpus > 1 (and a valid count) it goes from the
\* dispatch into main() in-process; and the launcher is called at most once
\* in the whole process tree of a run.
C6_NoRecursion ==
    /\ \A p \in Procs :
          env[p].IS_TORCHRUN = "1"
          => /\ launched[p] = 0
             /\ pc[p] # "wait"
             /\ (Parsed(p) /\ NumGpus(p) > 1 /\ NumGpus(p) <= AvailableGpus(cuda_devices))
                => /\ pc[p] \in {"parsed", "validate", "dispatch", "main", "select",
                                 "model", "train", "exit"}
                   /\ pc[p] = "exit" => (full_dataset[p] # NoData \/ error[p] = "exception")
    /\ \A q \in Workers : launched[q] = 0
    /\ TotalLaunched <= 1

C6_Witness ==
    \E p \in Procs :
        /\ env[p].IS_TORCHRUN = "1"
        /\ Parsed(p)
        /\ NumGpus(p) > 1
        /\ pc[p] = "train"
        /\ runner[p].made

\* C7: a process with num_gpus = 1 never calls the launcher, whatever the
\* recursion guard; it goes from the dispatch into main() in-process, and
\* from then on CUDA_VISIBLE_DEVICES is "0".  (available_gpus is at least 1
\* on every host, so the count 1 always passes the assertions.)
C7_SingleGpu ==
    \A p \in Procs :
        (Parsed(p) /\ NumGpus(p) = 1)
        => /\ launched[p] = 0
           /\ cmd[p] = << >>
           /\ pc[p] \in {"parsed", "validate", "dispatch", "main", "select",
                         "model", "train", "exit"}
           /\ (InMain(p) \/ pc[p] = "exit")
              => /\ env[p].CUDA_VISIBLE_DEVICES = "0"
                 /\ error[p] \in {"none", "exception"}
           /\ pc[p] \in {"parsed", "validate", "dispatch"} => NothingBuilt(p)

C7_Witness ==
    \E p \in Procs :
        /\ Parsed(p)
        /\ NumGpus(p) = 1
        /\ env[p].IS_TORCHRUN = "1"
        /\ shell_env.CUDA_VISIBLE_DEVICES = "1"
        /\ env[p].CUDA_VISIBLE_DEVICES = "0"
        /\ pc[p] = "train"

\* The arguments after the script path in the command process p built.
ScriptArgs(p) == SubSeq(cmd[p], 6, Len(cmd[p]))

IsBool(v) == v.t = "bool"

\* Where attribute k's arguments start among the script arguments.
RECURSIVE ArgStart(_, _)
ArgStart(cfg, k) ==
    IF k = 1 THEN 1
    ELSE ArgStart(cfg, k - 1) + (IF IsBool(cfg[k - 1].value) THEN 1 ELSE 2)

\* tok is prefix followed by name with every "_" turned into "-".
IsFlagFor(tok, prefix, name) ==
    /\ Len(tok) = Len(prefix) + Len(name)
    /\ SubSeq(tok, 1, Len(prefix)) = prefix
    /\ \A k \in 1..Len(name) :
          tok[Len(prefix) + k] = (IF name[k] = "_" THEN "-" ELSE name[k])

\* C8: in the command a process built for the launcher, the arguments after
\* the script path are, attribute by attribute in the order of
\* vars(config): for a bool that is True the one argument --<name with
\* dashes>, for a bool that is False the one argument --no-<name with
\* dashes>, and for any other value the two arguments --<name with dashes>
\* and str(value); nothing else is there.  In particular tune_llm gives
\* --tune-llm or --no-tune-llm and batch_size = 16 gives --batch-size 16.
C8_FlagSerialization ==
    \A p \in Procs :
        cmd[p] # << >>
        => LET cfg == config[p]
               args == ScriptArgs(p)
               last == Len(cfg)
           IN  /\ Len(args) = ArgStart(cfg, last) + (IF IsBool(cfg[last].value) THEN 0 ELSE 1)
               /\ \A k \in 1..Len(cfg) :
                     LET at == ArgStart(cfg, k)
                         v == cfg[k].value
                         name == Chars(cfg[k].key)
                     IN  IF IsBool(v)
                         THEN IF v.b
                              THEN IsFlagFor(args[at], << "-", "-" >>, name)
                              ELSE IsFlagFor(args[at], << "-", "-", "n", "o", "-" >>, name)
                         ELSE /\ IsFlagFor(args[at], << "-", "-" >>, name)
                              /\ args[at + 1] = Str(v)
               /\ LET t == << "-", "-", "t", "u", "n", "e", "-", "l", "l", "m" >>
                      nt == << "-", "-", "n", "o", "-", "t", "u", "n", "e", "-", "l", "l", "m" >>
                      has(x) == \E k \in 1..Len(args) : args[k] = x
                  IN  /\ has(t) = Get(cfg, "tune_llm").b
                      /\ has(nt) = ~Get(cfg, "tune_llm").b
               /\ Get(cfg, "batch_size") = VInt(16)
                  => \E k \in 1..(Len(args) - 1) :
                        /\ args[k] = << "-", "-", "b", "a", "t", "c", "h", "-", "s", "i", "z", "e" >>
                        /\ args[k + 1] = << "1", "6" >>

C8_Witness ==
    \E p \in Procs :
        /\ cmd[p] # << >>
        /\ Get(config[p], "tune_llm").b
        /\ ~Get(config[p], "tune_visual").b
        /\ Get(config[p], "batch_size") = VInt(16)

\* C9: the training arguments of the runner carry every user-configurable
\* hyperparameter of the configuration: learning rate, weight decay, warmup
\* ratio, per-device batch size, data-loader workers, save cadence,
\* reporting sink, the epoch cap num_epochs and the step cap max_steps.
C9_HyperparametersCarried ==
    \A p \in Procs :
        runner[p].made
        => LET a == runner[p].training_args
               c == config[p]
           IN  /\ a.learning_rate = Get(c, "learning_rate")
               /\ a.weight_decay = Get(c, "weight_decay")
               /\ a.warmup_ratio = Get(c, "warmup_ratio")
               /\ a.per_device_train_batch_size = Get(c, "batch_size")
               /\ a.dataloader_num_workers = Get(c, "dataloader_num_workers")
               /\ a.save_steps = Get(c, "save_steps")
               /\ a.report_to = Get(c, "report_to")
               /\ a.num_train_epochs = Get(c, "num_epochs")
               /\ a.max_steps = Get(c, "max_steps")

\* C10: the command a process built for the launcher names declared Config
\* fields only, so tyro.cli accepts the script arguments and rebuilds a
\* configuration equal to the builder's on every declared field.
C10_RoundTrip ==
    \A p \in Procs :
        cmd[p] # << >>
        => LET args == ScriptArgs(p)
               r == TyroCli(args)
           IN  /\ \A k \in 1..Len(args) :
                     StartsWith(args[k], << "-", "-" >>)
                     => \E n \in FieldNames : args[k] \in {FlagOf(n), NoFlagOf(n)}
               /\ r.ok
               /\ \A n \in FieldNames : PyEq(Get(r.config, n), Get(config[p], n))
====
